---- MODULE Spec2Model ----
(***************************************************************************)
(* Wordle "AI vs Human": the App component (human player, game lifecycle)  *)
(* and the BotBoard solver component, in its two implementations: the      *)
(* array-backed one (components/BotBoard.tsx) and the Set-backed one.      *)
(* Words are 5-tuples of one-letter strings.  A JavaScript array and a     *)
(* JavaScript Set are both modelled as sequences (a Set iterates in        *)
(* insertion order and holds no duplicates).                               *)
(***************************************************************************)
EXTENDS Integers, Sequences, FiniteSets, TLC

\* ------------------------------------------------------------------------
\* Program constants
\* ------------------------------------------------------------------------
WordLen == 5
MaxAttempts == 6
CheckLimit == 100
PenaltyPoolSize == 10

\* LetterStatus codes as the solver reads them
StatusDefault == 0
Absent == 1
Present == 2
Correct == 4

Pos == 1..WordLen

SALET == <<"S", "A", "L", "E", "T">>
REAST == <<"R", "E", "A", "S", "T">>
CRATE == <<"C", "R", "A", "T", "E">>
TRACE == <<"T", "R", "A", "C", "E">>
SLATE == <<"S", "L", "A", "T", "E">>
AROSE == <<"A", "R", "O", "S", "E">>
CRANE == <<"C", "R", "A", "N", "E">>
SLANT == <<"S", "L", "A", "N", "T">>
ALLOW == <<"A", "L", "L", "O", "W">>
LLAMA == <<"L", "L", "A", "M", "A">>
EIGHT == <<"E", "I", "G", "H", "T">>
FIGHT == <<"F", "I", "G", "H", "T">>
LIGHT == <<"L", "I", "G", "H", "T">>
MIGHT == <<"M", "I", "G", "H", "T">>
NIGHT == <<"N", "I", "G", "H", "T">>
RIGHT == <<"R", "I", "G", "H", "T">>
SIGHT == <<"S", "I", "G", "H", "T">>
TIGHT == <<"T", "I", "G", "H", "T">>
WIGHT == <<"W", "I", "G", "H", "T">>

\* the opening book in the opposite order
optimalStartsReversed == <<AROSE, SLATE, TRACE, CRATE, REAST, SALET>>

optimalStarts == <<SALET, REAST, CRATE, TRACE, SLATE, AROSE>>
fallback == <<AROSE, SLATE, CRANE, SLANT, CRATE>>
FallbackOther == SALET
FallbackGuess == AROSE

\* ------------------------------------------------------------------------
\* Sequence helpers (Array / Set primitives)
\* ------------------------------------------------------------------------
Range(s) == {s[i] : i \in 1..Len(s)}

includes(words, w) == \E i \in 1..Len(words) : words[i] = w

\* Array.from(new Set(xs)): keeps the first occurrence of every element
Dedup(xs) ==
  LET firsts == {i \in 1..Len(xs) : \A j \in 1..(i - 1) : xs[j] # xs[i]}
      nth(k) == CHOOSE i \in firsts : Cardinality({j \in firsts : j <= i}) = k
  IN  [k \in 1..Cardinality(firsts) |-> xs[nth(k)]]

\* ------------------------------------------------------------------------
\* FeedbackEngine: computeGuessStatus(guess, secret)
\* ------------------------------------------------------------------------
LetterCount(c, w) == Cardinality({i \in Pos : w[i] = c})

\* a letter found anywhere in the secret is marked Correct
Pass1StatusAnywhere(guess, secret) ==
  [i \in Pos |-> IF LetterCount(guess[i], secret) > 0 THEN Correct
                 ELSE StatusDefault]

Pass1Status(guess, secret) ==
  [i \in Pos |-> IF guess[i] = secret[i] THEN Correct ELSE StatusDefault]

Pass1Avail(guess, secret) ==
  [c \in Range(guess) \cup Range(secret) |->
     LetterCount(c, secret)
       - Cardinality({i \in Pos : guess[i] = c /\ secret[i] = c})]

RECURSIVE Pass2(_, _, _, _)
Pass2(i, guess, status, avail) ==
  IF i > WordLen THEN status
  ELSE IF status[i] = Correct THEN Pass2(i + 1, guess, status, avail)
  ELSE IF avail[guess[i]] > 0
    THEN Pass2(i + 1, guess, [status EXCEPT ![i] = Present],
               [avail EXCEPT ![guess[i]] = @ - 1])
    ELSE Pass2(i + 1, guess, [status EXCEPT ![i] = Absent], avail)

\* single-pass variant: a letter is Present whenever the secret contains it
SinglePassStatus(guess, secret) ==
  [i \in Pos |-> IF guess[i] = secret[i] THEN Correct
                 ELSE IF LetterCount(guess[i], secret) > 0 THEN Present
                 ELSE Absent]

computeGuessStatus(guess, secret) ==
  Pass2(1, guess, Pass1Status(guess, secret), Pass1Avail(guess, secret))

\* ------------------------------------------------------------------------
\* CandidatePool: filterWords(words, guess, result)
\* ------------------------------------------------------------------------
\* agreement at one position only
SameStatusSome(testResult, result) == \E i \in Pos : testResult[i] = result[i]

\* testResult.every((status, i) => status === result[i])
SameStatus(testResult, result) == \A i \in Pos : testResult[i] = result[i]

\* the guess and the candidate exchanged in the call
KeepWordSwapped(word, guess, result) ==
  SameStatus(computeGuessStatus(word, guess), result)

KeepWord(word, guess, result) ==
  SameStatus(computeGuessStatus(guess, word), result)

\* removal while iterating: the word after a removed one is not examined
RECURSIVE filterWordsSplice(_, _, _)
filterWordsSplice(words, guess, result) ==
  IF words = <<>> THEN <<>>
  ELSE IF KeepWord(Head(words), guess, result)
    THEN <<Head(words)>> \o filterWordsSplice(Tail(words), guess, result)
  ELSE IF Len(words) = 1 THEN <<>>
  ELSE <<words[2]>> \o filterWordsSplice(Tail(Tail(words)), guess, result)

RECURSIVE filterWords(_, _, _)
filterWords(words, guess, result) ==
  IF words = <<>> THEN <<>>
  ELSE IF KeepWord(Head(words), guess, result)
    THEN <<Head(words)>> \o filterWords(Tail(words), guess, result)
    ELSE filterWords(Tail(words), guess, result)

\* ------------------------------------------------------------------------
\* GuessScorer
\* ------------------------------------------------------------------------
\* every occurrence counted, repeats inside one word included
getLetterFrequencyPerRepeat(words, letter) ==
  Cardinality({<<k, i>> \in (1..Len(words)) \X Pos : words[k][i] = letter})

\* number of words that contain the letter at least once
getLetterFrequency(words, letter) ==
  Cardinality({k \in 1..Len(words) : \E i \in Pos : words[k][i] = letter})

\* number of words that have the letter at position i
getPositionalLetterFrequency(words, i, letter) ==
  Cardinality({k \in 1..Len(words) : words[k][i] = letter})

uniqueLetters(word) == Cardinality(Range(word))

\* the loop of scoreWord from position i on (scaled by 10): a letter seen at
\* an earlier position of the word adds nothing
RECURSIVE ScoreFrom(_, _, _)
ScoreFrom(i, word, words) ==
  IF i > WordLen THEN 0
  ELSE (IF \E j \in 1..(i - 1) : word[j] = word[i] THEN 0
        ELSE 4 * getLetterFrequency(words, word[i])
               + 6 * getPositionalLetterFrequency(words, i, word[i]))
       + ScoreFrom(i + 1, word, words)

\* scoreWord scaled by 250 so that the weights 0.4, 0.6, the factor
\* uniqueLetters/5 and the penalty 0.8 are integers (exact arithmetic)
scoreWord(word, words) ==
  ScoreFrom(1, word, words)
    * uniqueLetters(word)
    * (IF Len(words) > PenaltyPoolSize /\ uniqueLetters(word) < WordLen
         THEN 4 ELSE 5)

Min(a, b) == IF a < b THEN a ELSE b

\* the scan with >= in place of >: the last of equal scores is kept
RECURSIVE ScanBestLast(_, _, _, _, _)
ScanBestLast(i, limit, words, best, bestScore) ==
  IF i > limit THEN best
  ELSE LET score == scoreWord(words[i], words)
       IN  IF score >= bestScore
             THEN ScanBestLast(i + 1, limit, words, i, score)
             ELSE ScanBestLast(i + 1, limit, words, best, bestScore)

\* the scan loop from index i to limit; best is the index of bestWord
RECURSIVE ScanBest(_, _, _, _, _)
ScanBest(i, limit, words, best, bestScore) ==
  IF i > limit THEN best
  ELSE LET score == scoreWord(words[i], words)
       IN  IF score > bestScore
             THEN ScanBest(i + 1, limit, words, i, score)
             ELSE ScanBest(i + 1, limit, words, best, bestScore)

\* the scan loop run in consecutive blocks of indices, each block finished
\* before the next is entered (this bounds the evaluation depth; the index
\* of the best word never decreases along the scan)
ScanBlockLen == 10

RECURSIVE ScanBlocks(_, _, _, _)
ScanBlocks(lo, limit, words, best) ==
  IF lo > limit THEN best
  ELSE LET next == ScanBest(lo, Min(lo + ScanBlockLen - 1, limit), words,
                            best, scoreWord(words[best], words))
       IN  IF next >= best THEN ScanBlocks(lo + ScanBlockLen, limit, words, next)
           ELSE best

\* first opening-book word present in the pool, or <<>> when there is none
RECURSIVE FirstStart(_, _)
FirstStart(starts, words) ==
  IF starts = <<>> THEN <<>>
  ELSE IF includes(words, Head(starts)) THEN Head(starts)
  ELSE FirstStart(Tail(starts), words)

selectBestGuess(words, currentAttempt) ==
  IF Len(words) = 0 THEN FallbackGuess
  ELSE IF Len(words) = 1 THEN words[1]
  ELSE IF currentAttempt = 0 /\ FirstStart(optimalStarts, words) # <<>>
    THEN FirstStart(optimalStarts, words)
  ELSE words[ScanBlocks(1, Min(Len(words), CheckLimit), words, 1)]

\* ------------------------------------------------------------------------
\* Bounds of the model
\* ------------------------------------------------------------------------
\* number of words of the -IGHT family in the large word bank
FamilySize == 7
\* number of games (startNewGame completions) explored
MaxGames == 2

Family ==
  SubSeq(<<EIGHT, FIGHT, LIGHT, MIGHT, NIGHT, RIGHT, SIGHT, TIGHT, WIGHT>>,
         1, FamilySize)

\* word-bank contents served by the host: acceptable bank and main bank
Banks ==
  { [acceptable |-> Family, main |-> <<Family[1], Family[6], Family[7]>>],
    [acceptable |-> <<SALET, CRATE, LLAMA>>,
     main |-> <<CRANE, CRATE, ALLOW, AROSE>>] }

Variants == {"list", "set"}

\* ------------------------------------------------------------------------
\* State
\* ------------------------------------------------------------------------
VARIABLES
  variant,        \* which BotBoard implementation is mounted
  banks,          \* contents of the two word-bank files
  \* App
  gameStarted, correctWord, playerAttempt, gameOver, appBotWon, wordSet,
  pendingStarts,  \* startNewGame promises not yet resolved
  \* BotBoard
  botBoard, botStatus, possibleWords, botAttempt, botWon, botLost, wordList,
  loads,          \* word-bank loads of BotBoard not yet completed
  timers,         \* scheduled turn timers, each with the closure it captured
  \* history (observation only)
  hist,
  \* arguments and results of a pure function under test
  pure

appVars == <<gameStarted, correctWord, playerAttempt, gameOver, appBotWon,
             wordSet, pendingStarts>>
botVars == <<botBoard, botStatus, possibleWords, botAttempt, botWon, botLost,
             wordList, loads>>
solverVars == <<botBoard, botStatus, possibleWords, botAttempt, botWon,
                botLost>>
gameVars == <<variant, banks, appVars, botVars, timers, hist>>
vars == <<gameVars, pure>>

EmptyRow == <<>>
EmptyBoard == [i \in 1..MaxAttempts |-> EmptyRow]
DefaultStatusRow == [i \in Pos |-> StatusDefault]
DefaultStatus == [i \in 1..MaxAttempts |-> DefaultStatusRow]

\* history of the current game
HistInit ==
  [game |-> 0,            \* games started so far
   turns |-> 0,           \* solver turns executed in this game
   winCalls |-> 0,        \* onBotWin invocations in this game
   winTurns |-> 0,        \* turns of this game with all-Correct feedback
   guesses |-> <<>>,      \* guesses recorded in this game
   results |-> <<>>,      \* feedback recorded in this game, turn by turn
   pooled |-> <<>>,       \* per turn: the pool was non-empty at the guess
   rows |-> <<>>,         \* board rows written in this game
   firstPool |-> <<>>,    \* possibleWords at the first turn of this game
   lastResult |-> <<>>,   \* feedback of the latest turn of this game
   wonNow |-> FALSE,      \* botWon was set in this game
   lostNow |-> FALSE,     \* botLost was set in this game
   lastSecret |-> <<>>,   \* secret the latest turn was evaluated against
   dropped |-> 0]         \* timers that were pending when this game started

\* every component as constructed, before any event
GameIdle ==
  /\ gameStarted = FALSE
  /\ correctWord = <<>>
  /\ playerAttempt = 0
  /\ gameOver = [gameOver |-> FALSE, guessedWord |-> FALSE]
  /\ appBotWon = FALSE
  /\ wordSet = <<>>
  /\ pendingStarts = 0
  /\ botBoard = EmptyBoard
  /\ botStatus = DefaultStatus
  /\ possibleWords = <<>>
  /\ botAttempt = 0
  /\ botWon = FALSE
  /\ botLost = FALSE
  /\ wordList = <<>>
  /\ loads = IF variant = "list" THEN {"combined"} ELSE {"acceptable", "main"}
  /\ timers = {}
  /\ hist = HistInit

Init ==
  /\ variant \in Variants
  /\ banks \in Banks
  /\ GameIdle
  /\ pure = [op |-> "none"]

\* ------------------------------------------------------------------------
\* BotBoard effects and callbacks
\* ------------------------------------------------------------------------
\* effect on [gameStarted, wordList]: resets the solver while the game is
\* not started; gs and wl are the values of the render the effect runs in
ResetEffect(gs, wl, next) ==
  IF ~gs
    THEN /\ botBoard' = EmptyBoard
         /\ botStatus' = DefaultStatus
         /\ botAttempt' = 0
         /\ botWon' = FALSE
         /\ botLost' = FALSE
         /\ possibleWords' = wl
    ELSE /\ UNCHANGED <<botBoard, botStatus, botAttempt, botWon, botLost>>
         /\ possibleWords' = next

\* the solver has an outcome
Terminal == botWon \/ botLost

\* condition under which the turn effect arms its timer
TurnTrigger ==
  /\ gameStarted
  /\ correctWord # <<>>
  /\ playerAttempt > botAttempt
  /\ ~botWon
  /\ ~botLost
  /\ Len(wordList) > 0

\* result.every(s => s === 4)
IsWinSome(result) == \E i \in Pos : result[i] = Correct

IsWin(result) == \A i \in Pos : result[i] = Correct

\* newAttempt >= 6
IsLastAttemptOff(newAttempt) == newAttempt > MaxAttempts

IsLastAttempt(newAttempt) == newAttempt >= MaxAttempts

\* what the callbacks of the current render close over
Closure ==
  [botBoard |-> botBoard, botStatus |-> botStatus, botAttempt |-> botAttempt,
   possibleWords |-> possibleWords, correctWord |-> correctWord,
   botWon |-> botWon, botLost |-> botLost, gameStarted |-> gameStarted]

\* cleanup missing: timers of earlier renders stay scheduled
CleanupNone(scheduled) == scheduled

\* cleanup of the turn effect: clearTimeout(timer)
Cleanup(scheduled) == {}

\* the turn effect after a render: the timer of the previous render is
\* cleared and a new one is armed when the condition holds; fired are the
\* timers that ran in this step
TurnEffect(fired) ==
  timers' = Cleanup(timers \ fired)
              \cup (IF TurnTrigger' THEN {Closure'} ELSE {})

\* guard without the outcome flags
GuessGuardNoFlags(c) == c.botAttempt >= MaxAttempts \/ ~c.gameStarted

\* early return of makeBotGuess
GuessGuard(c) ==
  c.botWon \/ c.botLost \/ c.botAttempt >= MaxAttempts \/ ~c.gameStarted

\* the row after the one of the current attempt
RowOfNext(attempt) == attempt + 2

\* index of row botAttempt of the grids (rows are numbered from 1 here)
RowOf(attempt) == attempt + 1

\* the values one executed turn passes to the state setters, for the guess
\* chosen and the feedback computed for it
TurnUpdate(c, guess, result, isWin, isLast) ==
  [botBoard |-> [c.botBoard EXCEPT ![RowOf(c.botAttempt)] = guess],
   botStatus |-> [c.botStatus EXCEPT ![RowOf(c.botAttempt)] = result],
   botAttempt |-> c.botAttempt + 1,
   setWon |-> isWin,
   setLost |-> ~isWin /\ isLast,
   setPool |-> ~isWin /\ ~isLast,
   filtered |-> IF ~isWin /\ ~isLast
                  THEN filterWords(c.possibleWords, guess, result) ELSE <<>>]

\* the state updates of one executed turn
RecordTurn(c, guess, result, isWin, isLast) ==
  \E u \in {TurnUpdate(c, guess, result, isWin, isLast)} :
    /\ botBoard' = u.botBoard
    /\ botStatus' = u.botStatus
    /\ botAttempt' = u.botAttempt
    /\ botWon' = (botWon \/ u.setWon)
    /\ appBotWon' = (appBotWon \/ u.setWon)         \* onBotWin -> handleBotWin
    /\ botLost' = (botLost \/ u.setLost)
    /\ possibleWords' = IF u.setPool THEN u.filtered ELSE possibleWords
    /\ hist' = [hist EXCEPT
                  !.turns = @ + 1,
                  !.winCalls = IF isWin THEN @ + 1 ELSE @,
                  !.winTurns = IF \A i \in Pos : result[i] = Correct
                                 THEN @ + 1 ELSE @,
                  !.guesses = Append(@, guess),
                  !.results = Append(@, result),
                  !.pooled = Append(@, c.possibleWords # <<>>),
                  !.rows = Append(@, c.botAttempt),
                  !.firstPool = IF hist.turns = 0 THEN c.possibleWords ELSE @,
                  !.lastResult = result,
                  !.wonNow = @ \/ isWin,
                  !.lostNow = @ \/ (~isWin /\ isLast),
                  !.lastSecret = c.correctWord]

\* makeBotGuess of the render whose closure is c
makeBotGuess(c) ==
  IF GuessGuard(c)
    THEN UNCHANGED <<solverVars, appBotWon, hist>>
    ELSE
      \E guess \in {selectBestGuess(c.possibleWords, c.botAttempt)} :
        \E result \in {computeGuessStatus(guess, c.correctWord)} :
          \E isWin \in {IsWin(result)}, isLast \in {IsLastAttempt(c.botAttempt + 1)} :
            RecordTurn(c, guess, result, isWin, isLast)

\* a 500 ms timer of the turn effect fires
TimerFire ==
  \E c \in timers :
    /\ makeBotGuess(c)
    /\ UNCHANGED <<pure, variant, banks, gameStarted, correctWord, playerAttempt,
                   gameOver, wordSet, pendingStarts, wordList, loads>>
    /\ TurnEffect({c})

\* loadWords of the array-backed BotBoard: both banks fetched, unioned
LoadWordsOk ==
  /\ variant = "list" /\ gameStarted /\ "combined" \in loads
  /\ LET combined == Dedup(banks.acceptable \o banks.main)
     IN  /\ wordList' = combined
         /\ ResetEffect(gameStarted, combined, combined)
  /\ loads' = loads \ {"combined"}
  /\ UNCHANGED <<pure, variant, banks, appVars, hist>>
  /\ TurnEffect({})

\* loadWords, catch branch: a fetch failed
LoadWordsFail ==
  /\ variant = "list" /\ gameStarted /\ "combined" \in loads
  /\ wordList' = fallback
  /\ ResetEffect(gameStarted, fallback, fallback)
  /\ loads' = loads \ {"combined"}
  /\ UNCHANGED <<pure, variant, banks, appVars, hist>>
  /\ TurnEffect({})

\* Set-backed BotBoard: generateAcceptableWordSet() resolves
LoadAcceptable ==
  /\ variant = "set" /\ gameStarted /\ "acceptable" \in loads
  /\ possibleWords' = banks.acceptable
  /\ loads' = loads \ {"acceptable"}
  /\ UNCHANGED <<pure, variant, banks, appVars, hist, botBoard, botStatus,
                 botAttempt, botWon, botLost, wordList>>
  /\ TurnEffect({})

\* Set-backed BotBoard: generateMainWordSet() resolves
LoadMain ==
  /\ variant = "set" /\ gameStarted /\ "main" \in loads
  /\ wordList' = banks.main
  /\ ResetEffect(gameStarted, banks.main, possibleWords)
  /\ loads' = loads \ {"main"}
  /\ UNCHANGED <<pure, variant, banks, appVars, hist>>
  /\ TurnEffect({})

\* ------------------------------------------------------------------------
\* App
\* ------------------------------------------------------------------------
\* mount effect of App: the acceptable bank becomes the player's word set
AppLoadWordSet ==
  /\ wordSet = <<>>
  /\ wordSet' = banks.acceptable
  /\ UNCHANGED <<pure, variant, banks, gameStarted, correctWord, playerAttempt,
                 gameOver, appBotWon, pendingStarts, botVars, hist>>
  /\ TurnEffect({})

\* click on "Start Game" / "New Game": startNewGame up to its promise
StartNewGameClick ==
  /\ ~gameStarted \/ gameOver.gameOver
  /\ hist.game + pendingStarts < MaxGames
  /\ pendingStarts' = pendingStarts + 1
  /\ UNCHANGED <<pure, variant, banks, gameStarted, correctWord, playerAttempt,
                 gameOver, appBotWon, wordSet, botVars, timers, hist>>

\* startNewGame, continuation of generateMainWordSet()
StartNewGameResolve ==
  /\ pendingStarts > 0
  /\ pendingStarts' = pendingStarts - 1
  /\ \E newWord \in Range(banks.main) : correctWord' = newWord
  /\ playerAttempt' = 0
  /\ gameOver' = [gameOver |-> FALSE, guessedWord |-> FALSE]
  /\ appBotWon' = FALSE
  /\ gameStarted' = TRUE
  /\ ResetEffect(gameStarted', wordList, possibleWords)
  /\ hist' = [HistInit EXCEPT !.game = hist.game + 1,
                               !.dropped = Cardinality(timers)]
  /\ UNCHANGED <<pure, variant, banks, wordSet, wordList, loads>>
  /\ TurnEffect({})

\* onEnter with a typed five-letter word currWord
OnEnter ==
  /\ gameStarted
  /\ ~gameOver.gameOver                 \* the keyboard is shown
  /\ \E currWord \in Range(wordSet) :
       LET nextAttemptCount == playerAttempt + 1
       IN  /\ playerAttempt' = nextAttemptCount
           /\ gameOver' =
                IF currWord = correctWord
                  THEN [gameOver |-> TRUE, guessedWord |-> TRUE]
                ELSE IF nextAttemptCount = MaxAttempts
                  THEN [gameOver |-> TRUE, guessedWord |-> FALSE]
                ELSE gameOver
  /\ UNCHANGED <<pure, variant, banks, gameStarted, correctWord, appBotWon, wordSet,
                 pendingStarts, botVars, hist>>
  /\ TurnEffect({})

Next ==
  \/ AppLoadWordSet
  \/ StartNewGameClick
  \/ StartNewGameResolve
  \/ OnEnter
  \/ LoadWordsOk
  \/ LoadWordsFail
  \/ LoadAcceptable
  \/ LoadMain
  \/ TimerFire

Spec == Init /\ [][Next]_vars

\* fairness of the host: an armed turn timer eventually fires
FairSpec == Spec /\ WF_vars(TimerFire)

\* ------------------------------------------------------------------------
\* makeBotGuess invoked outside its timer, in states where its guard applies
\* ------------------------------------------------------------------------
\* number of such invocations explored
MaxDirectCalls == 1

InitGuard ==
  /\ variant \in Variants
  /\ banks \in Banks
  /\ GameIdle
  /\ pure = [op |-> "guard", calls |-> 0, last |-> "none"]

DirectCall ==
  /\ Terminal \/ ~gameStarted
  /\ pure.calls < MaxDirectCalls
  /\ makeBotGuess(Closure)
  /\ pure' = [pure EXCEPT !.calls = @ + 1,
                          !.last = IF ~gameStarted THEN "notStarted"
                                   ELSE IF botWon THEN "won" ELSE "lost"]
  /\ UNCHANGED <<variant, banks, gameStarted, correctWord, playerAttempt,
                 gameOver, wordSet, pendingStarts, wordList, loads>>
  /\ TurnEffect({})

NextGuard == Next \/ DirectCall

SpecGuard == InitGuard /\ [][NextGuard]_vars

\* ------------------------------------------------------------------------
\* Pure functions applied to bounded inputs
\* ------------------------------------------------------------------------
\* number of letters of the alphabet the evaluated words are built from
NumLetters == 3
\* longest pool handed to filterWords
MaxPoolLen == 3

EvalLetters == Range(SubSeq(<<"A", "L", "O", "W", "M">>, 1, NumLetters))
EvalWords == [Pos -> EvalLetters] \cup {ALLOW, LLAMA}

FilterWordSet == {ALLOW, LLAMA, SALET, SLATE, CRATE, CRANE}
FilterPools ==
  {p \in UNION {[1..n -> FilterWordSet] : n \in 0..MaxPoolLen} :
     \A i, j \in 1..Len(p) : i # j => p[i] # p[j]}
FilterResults(guess) ==
  {computeGuessStatus(guess, w) : w \in FilterWordSet}
    \cup {[i \in Pos |-> Absent], [i \in Pos |-> Present]}

GameFixed ==
  /\ variant = "list"
  /\ banks = CHOOSE b \in Banks : b.acceptable = Family
  /\ GameIdle

InitEvaluate ==
  /\ GameFixed
  /\ pure \in [op : {"evaluate"}, guess : EvalWords, secret : EvalWords,
               result : {<<>>}]

Evaluate ==
  /\ pure.op = "evaluate" /\ pure.result = <<>>
  /\ pure' = [pure EXCEPT !.result = computeGuessStatus(pure.guess, pure.secret)]
  /\ UNCHANGED gameVars

SpecEvaluate == InitEvaluate /\ [][Evaluate]_vars

InitFilter ==
  /\ GameFixed
  /\ \E pool \in FilterPools, guess \in FilterWordSet :
       \E result \in FilterResults(guess) :
         pure = [op |-> "filter", pool |-> pool, guess |-> guess,
                 result |-> result, phase |-> 0, out1 |-> <<>>, out2 |-> <<>>]

\* filterWords(pool, guess, result)
FilterOnce ==
  /\ pure.op = "filter" /\ pure.phase = 0
  /\ pure' = [pure EXCEPT !.phase = 1,
                          !.out1 = filterWords(pure.pool, pure.guess, pure.result)]
  /\ UNCHANGED gameVars

\* filterWords applied to its own output
FilterAgain ==
  /\ pure.op = "filter" /\ pure.phase = 1
  /\ pure' = [pure EXCEPT !.phase = 2,
                          !.out2 = filterWords(pure.out1, pure.guess, pure.result)]
  /\ UNCHANGED gameVars

NextFilter == FilterOnce \/ FilterAgain

SpecFilter == InitFilter /\ [][NextFilter]_vars

\* longest pool enumerated for selectBestGuess and scoreWord
MaxSelectLen == 3

SelectWordSet == {SALET, CRATE, AROSE, LLAMA, ALLOW, FIGHT, LIGHT}
SmallPools ==
  {p \in UNION {[1..n -> SelectWordSet] : n \in 0..MaxSelectLen} :
     \A i, j \in 1..Len(p) : i # j => p[i] # p[j]}

\* generated words with five distinct letters; Gen(0) has the most frequent
\* letter at every position of LargePool
Gen(k) ==
  << <<"A", "B", "C", "D", "E">>[(k \div 25) + 1],
     <<"F", "G", "H", "I", "J">>[((k \div 5) % 5) + 1],
     <<"K", "L", "M", "N", "O">>[(k % 5) + 1],
     "X",
     IF k > 0 /\ k % 25 = 0 THEN "Z" ELSE "Y" >>

\* CheckLimit + 1 words, the last one being Gen(0)
LargePool ==
  [k \in 1..CheckLimit |-> Gen(k)] \o <<Gen(0)>>

\* n words, the last two with repeated letters
RepeatPool(n) == [k \in 1..(n - 2) |-> Gen(k)] \o <<LLAMA, ALLOW>>

SelectPools ==
  SmallPools \cup {LargePool, RepeatPool(PenaltyPoolSize),
                   RepeatPool(PenaltyPoolSize + 1)}
SelectTurns == {0, 1, MaxAttempts - 1}

InitSelect ==
  /\ GameFixed
  /\ pure \in [op : {"select"}, pool : SelectPools, turn : SelectTurns,
               scored : {FALSE}, scores : {<<>>},
               phase : {0}, out1 : {<<>>}, out2 : {<<>>}]

ScoreWords ==
  /\ pure.op = "select" /\ ~pure.scored
  /\ pure' = [pure EXCEPT
                !.scored = TRUE,
                !.scores = [k \in 1..Len(pure.pool) |->
                              scoreWord(pure.pool[k], pure.pool)] \o <<>>]
  /\ UNCHANGED gameVars

SelectGuess ==
  /\ pure.op = "select" /\ pure.phase = 0
  /\ pure' = [pure EXCEPT !.phase = 1,
                          !.out1 = selectBestGuess(pure.pool, pure.turn)]
  /\ UNCHANGED gameVars

SelectAgain ==
  /\ pure.op = "select" /\ pure.phase = 1
  /\ pure' = [pure EXCEPT !.phase = 2,
                          !.out2 = selectBestGuess(pure.pool, pure.turn)]
  /\ UNCHANGED gameVars

NextSelect == ScoreWords \/ SelectGuess \/ SelectAgain

SpecSelect == InitSelect /\ [][NextSelect]_vars

\* ------------------------------------------------------------------------
\* The array-backed and the Set-backed BotBoard mounted side by side: same
\* banks, same secret, same host events
\* ------------------------------------------------------------------------
SolverInit ==
  [botBoard |-> EmptyBoard, botStatus |-> DefaultStatus, botAttempt |-> 0,
   possibleWords |-> <<>>, botWon |-> FALSE, botLost |-> FALSE,
   wordList |-> <<>>, guesses |-> <<>>, pools |-> <<>>]

InitPair ==
  /\ GameFixed
  /\ \E b \in Banks : \E secret \in Range(b.main) :
       pure = [op |-> "pair", banks |-> b, secret |-> secret,
               playerAttempt |-> 0, delivered |-> {},
               list |-> SolverInit, set |-> SolverInit]

\* the closure of a solver's current render
SolverClosure(sv) ==
  [botBoard |-> sv.botBoard, botStatus |-> sv.botStatus,
   botAttempt |-> sv.botAttempt, possibleWords |-> sv.possibleWords,
   correctWord |-> pure.secret, botWon |-> sv.botWon, botLost |-> sv.botLost,
   gameStarted |-> TRUE]

\* the turn effect's condition for one solver
SolverTrigger(sv) ==
  /\ pure.playerAttempt > sv.botAttempt
  /\ ~sv.botWon /\ ~sv.botLost
  /\ Len(sv.wordList) > 0

\* makeBotGuess for one solver
SolverTurn(sv) ==
  LET c == SolverClosure(sv)
      guess == selectBestGuess(c.possibleWords, c.botAttempt)
      result == computeGuessStatus(guess, c.correctWord)
      u == TurnUpdate(c, guess, result, IsWin(result),
                      IsLastAttempt(c.botAttempt + 1))
      pool == IF u.setPool THEN u.filtered ELSE sv.possibleWords
  IN  IF GuessGuard(c) THEN sv
      ELSE [sv EXCEPT !.botBoard = u.botBoard,
                      !.botStatus = u.botStatus,
                      !.botAttempt = u.botAttempt,
                      !.botWon = @ \/ u.setWon,
                      !.botLost = @ \/ u.setLost,
                      !.possibleWords = pool,
                      !.guesses = Append(@, guess),
                      !.pools = Append(@, Range(pool))]

\* the acceptable bank arrives: the array-backed loadWords goes on to fetch
\* the main bank, the Set-backed component sets its pool
PairDeliverAcceptable ==
  /\ pure.op = "pair" /\ "acceptable" \notin pure.delivered
  /\ pure' = [pure EXCEPT
                !.delivered = @ \cup {"acceptable"},
                !.set = [@ EXCEPT !.possibleWords = pure.banks.acceptable]]
  /\ UNCHANGED gameVars

\* the main bank arrives
PairDeliverMain ==
  /\ pure.op = "pair" /\ "acceptable" \in pure.delivered
  /\ "main" \notin pure.delivered
  /\ pure' = [pure EXCEPT
                !.delivered = @ \cup {"main"},
                !.list = [@ EXCEPT
                            !.wordList = Dedup(pure.banks.acceptable
                                                 \o pure.banks.main),
                            !.possibleWords = Dedup(pure.banks.acceptable
                                                      \o pure.banks.main)],
                !.set = [@ EXCEPT !.wordList = pure.banks.main]]
  /\ UNCHANGED gameVars

\* the player submits a word
PairEnter ==
  /\ pure.op = "pair" /\ pure.playerAttempt < MaxAttempts
  /\ pure' = [pure EXCEPT !.playerAttempt = @ + 1]
  /\ UNCHANGED gameVars

\* 500 ms pass: each solver whose turn effect armed a timer takes its turn
PairTurn ==
  /\ pure.op = "pair"
  /\ SolverTrigger(pure.list) \/ SolverTrigger(pure.set)
  /\ pure' = [pure EXCEPT
                !.list = IF SolverTrigger(pure.list)
                           THEN SolverTurn(pure.list) ELSE @,
                !.set = IF SolverTrigger(pure.set)
                          THEN SolverTurn(pure.set) ELSE @]
  /\ UNCHANGED gameVars

NextPair == PairDeliverAcceptable \/ PairDeliverMain \/ PairEnter \/ PairTurn

SpecPair == InitPair /\ [][NextPair]_vars

\* ------------------------------------------------------------------------
\* App: the player's board. An array is an object; the board state holds
\* references to row objects and rowCells gives each row object's cells.
\* ------------------------------------------------------------------------
ESSES == <<"E", "S", "S", "E", "S">>
\* keys of the on-screen keyboard the player uses
PlayerKeys == {"E", "S"}
\* the acceptable bank and the main bank served to App
PlayerBank == [acceptable |-> <<ESSES>>, main |-> <<ESSES, EIGHT>>]

\* boardDefault: one module-level array of 6 row objects, here rows 1..6
boardDefault == [r \in 1..MaxAttempts |-> r]
\* boardStatusDefault: its rows are never written in place
boardStatusDefault == DefaultStatus

InitPlayer ==
  /\ GameFixed
  /\ pure = [op |-> "board",
             rowCells |-> [r \in 1..MaxAttempts |-> [i \in Pos |-> ""]],
             board |-> boardDefault,
             boardStatus |-> boardStatusDefault,
             currAttempt |-> [attempt |-> 0, letterPos |-> 0],
             wordSet |-> <<>>,
             gameOver |-> [gameOver |-> FALSE, guessedWord |-> FALSE],
             botWon |-> FALSE,
             gameStarted |-> FALSE,
             correctWord |-> <<>>,
             pendingStarts |-> 0,
             games |-> 0]

\* the cells the Board component shows
BoardCells(p) == [r \in 1..MaxAttempts |-> p.rowCells[p.board[r]]]

\* mount effect: the acceptable bank becomes wordSet
PlayerLoadWordSet ==
  /\ pure.op = "board" /\ pure.wordSet = <<>>
  /\ pure' = [pure EXCEPT !.wordSet = PlayerBank.acceptable]
  /\ UNCHANGED gameVars

\* click on "Start Game" / "New Game": startNewGame up to its promise
PlayerStartClick ==
  /\ pure.op = "board"
  /\ ~pure.gameStarted \/ pure.gameOver.gameOver
  /\ pure.games + pure.pendingStarts < MaxGames
  /\ pure' = [pure EXCEPT !.pendingStarts = @ + 1]
  /\ UNCHANGED gameVars

\* startNewGame, continuation of generateMainWordSet()
PlayerStartResolve ==
  /\ pure.op = "board" /\ pure.pendingStarts > 0
  /\ \E newWord \in Range(PlayerBank.main) :
       pure' = [pure EXCEPT
                  !.pendingStarts = @ - 1,
                  !.correctWord = newWord,
                  !.board = boardDefault,
                  !.boardStatus = boardStatusDefault,
                  !.currAttempt = [attempt |-> 0, letterPos |-> 0],
                  !.gameOver = [gameOver |-> FALSE, guessedWord |-> FALSE],
                  !.botWon = FALSE,
                  !.gameStarted = TRUE,
                  !.games = @ + 1]
  /\ UNCHANGED gameVars

\* the Keyboard is rendered
KeyboardShown == pure.gameStarted /\ ~pure.gameOver.gameOver

\* onSelectLetter(key): newBoard = [...board] has the same row objects, and
\* the assignment writes into the row object
PlayerSelectLetter ==
  /\ pure.op = "board" /\ KeyboardShown
  /\ ~(pure.currAttempt.letterPos >= WordLen \/ ~pure.gameStarted)
  /\ \E key \in PlayerKeys :
       pure' = [pure EXCEPT
                  !.rowCells[pure.board[pure.currAttempt.attempt + 1]]
                            [pure.currAttempt.letterPos + 1] = key,
                  !.currAttempt.letterPos = @ + 1]
  /\ UNCHANGED gameVars

\* onDelete
PlayerDelete ==
  /\ pure.op = "board" /\ KeyboardShown
  /\ ~(pure.currAttempt.letterPos = 0 \/ ~pure.gameStarted)
  /\ pure' = [pure EXCEPT
                !.rowCells[pure.board[pure.currAttempt.attempt + 1]]
                          [pure.currAttempt.letterPos] = "",
                !.currAttempt.letterPos = @ - 1]
  /\ UNCHANGED gameVars

\* onEnter with a word of wordSet on the current row
PlayerEnter ==
  /\ pure.op = "board" /\ KeyboardShown
  /\ ~(pure.currAttempt.letterPos # WordLen \/ ~pure.gameStarted)
  /\ LET currWord == BoardCells(pure)[pure.currAttempt.attempt + 1]
         nextAttemptCount == pure.currAttempt.attempt + 1
     IN  /\ includes(pure.wordSet, currWord)
         /\ pure' = [pure EXCEPT
                !.boardStatus[pure.currAttempt.attempt + 1] =
                   computeGuessStatus(currWord, pure.correctWord),
                !.currAttempt = [attempt |-> nextAttemptCount, letterPos |-> 0],
                !.gameOver =
                   IF currWord = pure.correctWord
                     THEN [gameOver |-> TRUE, guessedWord |-> TRUE]
                   ELSE IF nextAttemptCount = MaxAttempts
                     THEN [gameOver |-> TRUE, guessedWord |-> FALSE]
                   ELSE @]
  /\ UNCHANGED gameVars

\* handleBotWin, called by the solver
PlayerBotWin ==
  /\ pure.op = "board" /\ pure.gameStarted /\ ~pure.botWon
  /\ pure' = [pure EXCEPT !.botWon = TRUE]
  /\ UNCHANGED gameVars

NextPlayer ==
  \/ PlayerLoadWordSet
  \/ PlayerStartClick
  \/ PlayerStartResolve
  \/ PlayerSelectLetter
  \/ PlayerDelete
  \/ PlayerEnter
  \/ PlayerBotWin

SpecPlayer == InitPlayer /\ [][NextPlayer]_vars

\* ------------------------------------------------------------------------
\* Properties
\* ------------------------------------------------------------------------
AllCorrect(result) == result # <<>> /\ \A i \in Pos : result[i] = Correct
FullDictionary ==
  IF variant = "list" THEN Range(wordList)
  ELSE Range(banks.acceptable) \cup Range(banks.main)

\* what a freshly initialised solver may hold as its pool: the dictionary,
\* or the bank the component at hand initialises or resets its pool from
FreshPools == {FullDictionary, Range(wordList), Range(banks.acceptable)}

\* C1: once a new game has been started after an earlier one and the word
\* banks are loaded, the solver is fresh before its first turn of that game:
\* botAttempt = 0, botWon and botLost false, board and status grid empty,
\* possibleWords = the full dictionary.
C1_FreshSolverOnNewGame ==
  (hist.game >= 2 /\ hist.turns = 0 /\ loads = {}) =>
     /\ botAttempt = 0
     /\ ~botWon
     /\ ~botLost
     /\ botBoard = EmptyBoard
     /\ botStatus = DefaultStatus
     /\ Range(possibleWords) \in FreshPools

\* C2: botAttempt never exceeds 6, no game executes more than 6 solver
\* turns, botAttempt = 6 implies Won or Lost, and a game in which the turn
\* trigger keeps coming back while the solver is undecided reaches Won or
\* Lost.
C2_Bound ==
  /\ botAttempt <= MaxAttempts
  /\ hist.turns <= MaxAttempts
  /\ botAttempt = MaxAttempts => Terminal

C2_TerminatesWithinSix ==
  /\ []C2_Bound
  /\ ([](~Terminal => <>TurnTrigger)) => <>Terminal

C2_Witness == botAttempt = MaxAttempts /\ botLost /\ hist.turns = MaxAttempts

\* C3: in every game onBotWin is invoked at most once, exactly at the turns
\* whose feedback is all-Correct (the guess is the secret), and not at all
\* while the game's turns produced no such feedback (Lost or InProgress).
C3_WinCallbackOnce ==
  /\ hist.winCalls <= 1
  /\ hist.winCalls = hist.winTurns
  /\ hist.winCalls = 1 =>
       /\ botWon /\ appBotWon
       /\ AllCorrect(hist.lastResult)
       /\ hist.guesses[Len(hist.guesses)] = correctWord
  /\ (hist.lostNow \/ ~botWon) => hist.winCalls = 0

C3_Witness == hist.winCalls = 1 /\ botWon /\ hist.turns >= 2

\* C4: botWon and botLost are never both true; Won holds iff some guess
\* recorded in the current game equals the secret; Lost holds iff 6 guesses
\* were recorded and none equals the secret.
C4_OutcomeMatchesGuesses ==
  LET matched == \E k \in 1..Len(hist.guesses) : hist.guesses[k] = correctWord
  IN  /\ ~(botWon /\ botLost)
      /\ botWon <=> matched
      /\ botLost <=> (Len(hist.guesses) = MaxAttempts /\ ~matched)

\* C5: if the secret was in the pool when the first solver turn of the game
\* fired, it is in possibleWords in every later state of the game.
C5_SecretPreserved ==
  (hist.turns >= 1 /\ includes(hist.firstPool, correctWord)) =>
     includes(possibleWords, correctWord)

C5_Witness ==
  /\ hist.turns >= 2
  /\ includes(hist.firstPool, correctWord)
  /\ Len(possibleWords) < Len(hist.firstPool)
  /\ ~botWon

\* C6: between the first solver turn of a game and its terminal state no
\* transition of that game makes possibleWords grow.
C6_PoolNeverGrows ==
  [][(hist.turns >= 1 /\ ~Terminal /\ hist'.game = hist.game)
       => Range(possibleWords') \subseteq Range(possibleWords)]_vars

\* C7: at the first solver turn of every game possibleWords is non-empty and
\* equals the full dictionary (acceptable bank united with main bank).
C7_FirstTurnPoolIsDictionary ==
  hist.turns >= 1 =>
     /\ hist.firstPool # <<>>
     /\ Range(hist.firstPool) = FullDictionary

\* C8: filterWords(pool, guess, feedback) is exactly the words W of pool, in
\* pool order, with computeGuessStatus(guess, W) equal to feedback at all 5
\* positions; nothing else is kept or added.
C8_FilterExact ==
  (pure.op = "filter" /\ pure.phase >= 1) =>
     LET Consistent(w) ==
           \A i \in Pos : computeGuessStatus(pure.guess, w)[i] = pure.result[i]
     IN  /\ pure.out1 = SelectSeq(pure.pool, Consistent)
         /\ Range(pure.out1) \subseteq Range(pure.pool)
         /\ Len(pure.out1) <= Len(pure.pool)

C8_Witness ==
  /\ pure.op = "filter" /\ pure.phase >= 1
  /\ pure.out1 # <<>>
  /\ Len(pure.out1) < Len(pure.pool)

\* C9: filtering the filtered pool again with the same guess and feedback
\* returns the same sequence (same members, same order).
C9_FilterIdempotent ==
  (pure.op = "filter" /\ pure.phase = 2) => pure.out2 = pure.out1

C9_Witness ==
  /\ pure.op = "filter" /\ pure.phase = 2
  /\ Len(pure.out2) >= 2
  /\ Len(pure.out2) < Len(pure.pool)

\* C10: computeGuessStatus marks position i Correct iff guess[i] = secret[i];
\* per letter, the positions marked Correct or Present never outnumber the
\* letter's occurrences in the secret; guess LLAMA against secret ALLOW gives
\* Present, Correct, Present, Absent, Absent.
C10_EvaluateDuplicates ==
  (pure.op = "evaluate" /\ pure.result # <<>>) =>
     /\ \A i \in Pos : pure.result[i] \in {Absent, Present, Correct}
     /\ \A i \in Pos : pure.result[i] = Correct <=> pure.guess[i] = pure.secret[i]
     /\ \A c \in Range(pure.guess) :
          Cardinality({i \in Pos : /\ pure.guess[i] = c
                                   /\ pure.result[i] \in {Present, Correct}})
            <= LetterCount(c, pure.secret)
     /\ (pure.guess = LLAMA /\ pure.secret = ALLOW) =>
          pure.result = <<Present, Correct, Present, Absent, Absent>>

C10_Witness ==
  /\ pure.op = "evaluate"
  /\ pure.guess = LLAMA /\ pure.secret = ALLOW
  /\ pure.result = <<Present, Correct, Present, Absent, Absent>>

\* C11: computeGuessStatus(w, w) is all-Correct, and the result of
\* computeGuessStatus(guess, secret) passes the solver's win test (every
\* status is the Correct code) exactly when guess = secret.
C11_WinIffSecret ==
  (pure.op = "evaluate" /\ pure.result # <<>>) =>
     /\ (pure.guess = pure.secret) => pure.result = [i \in Pos |-> Correct]
     /\ IsWin(pure.result) <=> (pure.guess = pure.secret)

\* an anagram of the secret is evaluated and is not a win
C11_Witness ==
  /\ pure.op = "evaluate" /\ pure.result # <<>>
  /\ pure.guess # pure.secret
  /\ \A c \in Range(pure.guess) \cup Range(pure.secret) :
       LetterCount(c, pure.guess) = LetterCount(c, pure.secret)
  /\ ~IsWin(pure.result)

\* C13: a turn taken on an empty pool guesses AROSE, records it with its
\* feedback, raises botAttempt by one and leaves the pool empty; it wins
\* exactly when the secret is AROSE and loses exactly at the 6th attempt
\* otherwise, so an empty pool at attempt 6 is always Won or Lost.
C13_EmptyPoolFallback ==
  /\ []((possibleWords = <<>> /\ botAttempt = MaxAttempts) => Terminal)
  /\ [][(possibleWords = <<>> /\ hist'.turns = hist.turns + 1) =>
          /\ botBoard'[botAttempt + 1] = AROSE
          /\ botStatus'[botAttempt + 1] = computeGuessStatus(AROSE, correctWord)
          /\ botAttempt' = botAttempt + 1
          /\ possibleWords' = <<>>
          /\ botWon' <=> correctWord = AROSE
          /\ botLost' <=> (correctWord # AROSE /\ botAttempt' = MaxAttempts)]_vars

C13_Witness ==
  /\ possibleWords = <<>>
  /\ hist.firstPool # <<>>
  /\ hist.turns >= 3
  /\ hist.guesses[Len(hist.guesses)] = AROSE
  /\ botLost

\* C14: in every reachable state botAttempt <= playerAttempt, and a turn is
\* scheduled only while playerAttempt > botAttempt.
C14_SolverNeverAhead ==
  /\ botAttempt <= playerAttempt
  /\ timers # {} => playerAttempt > botAttempt

\* C15: at most one turn is scheduled at any time, a scheduled turn always
\* holds the secret and solver state of the current render (one scheduled
\* before a new game started is gone afterwards), and the latest turn of a
\* game was evaluated against that game's secret.
C15_PendingTurnDiscarded ==
  /\ Cardinality(timers) <= 1
  /\ \A c \in timers : c = Closure
  /\ hist.turns >= 1 =>
       /\ hist.lastSecret = correctWord
       /\ botStatus[botAttempt] =
            computeGuessStatus(botBoard[botAttempt], correctWord)

C15_Witness == hist.dropped >= 1 /\ hist.turns >= 1 /\ hist.game >= 2

\* C17: a fired turn at index t writes guess and feedback into row t only
\* and raises botAttempt by exactly 1; row i is non-empty iff i < botAttempt
\* (rows counted from 0), and no row is written twice in a game.
C17_RowsFilled ==
  /\ \A i \in 1..MaxAttempts : botBoard[i] # EmptyRow <=> i <= botAttempt
  /\ \A j, k \in 1..Len(hist.rows) : j # k => hist.rows[j] # hist.rows[k]

C17_TurnWritesItsRow ==
  /\ []C17_RowsFilled
  /\ [][hist'.turns = hist.turns + 1 =>
          /\ botAttempt' = botAttempt + 1
          /\ botBoard'[botAttempt + 1] = hist'.guesses[Len(hist'.guesses)]
          /\ botStatus'[botAttempt + 1] = hist'.lastResult
          /\ \A i \in 1..MaxAttempts :
               i # botAttempt + 1 =>
                 botBoard'[i] = botBoard[i] /\ botStatus'[i] = botStatus[i]]_vars

C17_Witness ==
  /\ botAttempt = 3
  /\ hist.rows = <<0, 1, 2>>
  /\ botBoard[3] # EmptyRow /\ botBoard[4] = EmptyRow

\* C18: in a Won, Lost or not-started state an invocation of makeBotGuess
\* changes none of botBoard, botStatus, botAttempt, possibleWords, botWon,
\* botLost and does not call onBotWin; no turn is scheduled or executed in
\* such a state.
C18_GuardedTurn ==
  /\ [](timers # {} => (gameStarted /\ ~Terminal))
  /\ [][((Terminal \/ ~gameStarted)
           /\ (pure' # pure \/ hist'.turns = hist.turns + 1)) =>
          /\ UNCHANGED <<botBoard, botStatus, botAttempt, possibleWords,
                         botWon, botLost, appBotWon>>
          /\ hist'.winCalls = hist.winCalls
          /\ hist'.turns = hist.turns]_vars

C18_Witness ==
  /\ pure.op = "guard" /\ pure.last = "won"
  /\ botWon /\ botAttempt < MaxAttempts /\ playerAttempt > botAttempt

\* the opening book as an ordered list
Book == <<SALET, REAST, CRATE, TRACE, SLATE, AROSE>>
BookPresent(pool) == {j \in 1..Len(Book) : includes(pool, Book[j])}

\* least index among the first min(|pool|, 100) whose recorded score is
\* not exceeded by any other of them
Scanned(pool) == 1..Min(Len(pool), 100)
BestIndex(pool, scores) ==
  CHOOSE i \in Scanned(pool) :
    /\ \A j \in Scanned(pool) : scores[j] <= scores[i]
    /\ \A j \in 1..(i - 1) : scores[j] < scores[i]

\* C12: on turn 0 with at least two words in the pool, selectBestGuess
\* returns the first word of [SALET, REAST, CRATE, TRACE, SLATE, AROSE] that
\* the pool contains, whatever the scores (SALET whenever the pool contains
\* it); on a later turn the result is the best-scoring scanned word, the
\* opening book playing no part.
C12_OpeningBook ==
  (pure.op = "select" /\ pure.phase >= 1 /\ pure.scored
     /\ Len(pure.pool) >= 2) =>
     /\ (pure.turn = 0 /\ BookPresent(pure.pool) # {}) =>
          pure.out1 = Book[CHOOSE j \in BookPresent(pure.pool) :
                             \A m \in BookPresent(pure.pool) : j <= m]
     /\ (pure.turn = 0 /\ includes(pure.pool, SALET)) => pure.out1 = SALET
     /\ pure.turn > 0 =>
          pure.out1 = pure.pool[BestIndex(pure.pool, pure.scores)]

\* turn 0, SALET is in the pool but neither first nor best-scoring
C12_Witness ==
  /\ pure.op = "select" /\ pure.phase >= 1 /\ pure.scored
  /\ pure.turn = 0 /\ Len(pure.pool) >= 2
  /\ pure.pool[1] # SALET
  /\ \E k, m \in 1..Len(pure.pool) :
       /\ pure.pool[k] = SALET
       /\ pure.scores[m] > pure.scores[k]
  /\ pure.out1 = SALET

\* the opening book does not decide the guess
NoBook == pure.turn > 0 \/ BookPresent(pure.pool) = {}

\* C19: when the pool has at least two words and the opening book does not
\* apply, selectBestGuess returns the pool word with the highest score among
\* the first min(|pool|, 100) words, the first scanned of those with equal
\* score; a word beyond the first 100 is never returned, and a second call
\* with the same pool and turn index returns the same word.
C19_FirstBestOfScanned ==
  (pure.op = "select" /\ pure.phase >= 1 /\ pure.scored
     /\ Len(pure.pool) >= 2 /\ NoBook) =>
     /\ includes(pure.pool, pure.out1)
     /\ pure.out1 = pure.pool[BestIndex(pure.pool, pure.scores)]
     /\ \E i \in Scanned(pure.pool) : pure.pool[i] = pure.out1
     /\ pure.phase = 2 => pure.out2 = pure.out1

\* the best-scoring word of the pool lies beyond the first 100 and is not
\* returned
C19_Witness ==
  /\ pure.op = "select" /\ pure.phase = 2 /\ pure.scored /\ NoBook
  /\ Len(pure.pool) > CheckLimit
  /\ \A j \in Scanned(pure.pool) :
       pure.scores[j] < pure.scores[Len(pure.pool)]
  /\ pure.out1 # pure.pool[Len(pure.pool)]
  /\ includes(pure.pool, pure.out1)

\* position of the first occurrence of letter c in word
FirstPos(word, c) ==
  CHOOSE i \in Pos : word[i] = c /\ \A j \in 1..(i - 1) : word[j] # c

\* 10 * S of the claim: per distinct letter c of word, 4 for every pool word
\* containing c and 6 for every pool word with c at the position c has in
\* word
TenS(word, pool) ==
  4 * Cardinality({<<c, k>> \in Range(word) \X (1..Len(pool)) :
                     c \in Range(pool[k])})
  + 6 * Cardinality({<<c, k>> \in Range(word) \X (1..Len(pool)) :
                       pool[k][FirstPos(word, c)] = c})

\* C20: scoreWord(word, pool) = S * (d / 5) * p in exact arithmetic, with d
\* the number of distinct letters of word, S the sum over those letters of
\* 0.4 * (pool words containing the letter) + 0.6 * (pool words with the
\* letter at its position in word), p = 0.8 when |pool| > 10 and d < 5 and
\* p = 1 otherwise; both sides are multiplied by 250.
C20_ScoreFormula ==
  (pure.op = "select" /\ pure.scored) =>
     \A k \in 1..Len(pure.pool) :
       LET word == pure.pool[k]
           d == Cardinality(Range(word))
           p5 == IF Len(pure.pool) > 10 /\ d < 5 THEN 4 ELSE 5
       IN  pure.scores[k] = TenS(word, pure.pool) * d * p5

\* a word with a repeated letter is scored in a pool of more than 10 words
C20_Witness ==
  /\ pure.op = "select" /\ pure.scored
  /\ Len(pure.pool) > 10
  /\ \E k \in 1..Len(pure.pool) :
       /\ pure.pool[k] = LLAMA
       /\ pure.scores[k] = TenS(LLAMA, pure.pool) * 3 * 4
       /\ pure.scores[k] > 0

\* C16: side by side on the same secret, banks and host events, the
\* array-backed and the Set-backed solver make the same guess at every
\* turn, record the same feedback, hold pools of the same membership after
\* every turn and reach the same outcome.
C16_VariantsAgree ==
  pure.op = "pair" =>
     /\ pure.list.guesses = pure.set.guesses
     /\ pure.list.botBoard = pure.set.botBoard
     /\ pure.list.botStatus = pure.set.botStatus
     /\ pure.list.pools = pure.set.pools
     /\ pure.list.botWon = pure.set.botWon
     /\ pure.list.botLost = pure.set.botLost

\* a turn of the running game that was taken on a non-empty pool and neither
\* won nor used the last attempt
FilteringTurn ==
  /\ hist'.game = hist.game /\ hist'.turns = hist.turns + 1
  /\ possibleWords # <<>>
  /\ ~hist'.wonNow /\ ~hist'.lostNow

\* C21: a solver turn on a non-empty pool that neither wins nor uses the 6th
\* attempt leaves a strictly smaller pool without the guess; within one game
\* no word is guessed twice from a non-empty pool, and every guess made from
\* a non-empty pool agrees with all feedback recorded earlier in that game.
C21_ConsistentGuesses ==
  /\ [][FilteringTurn =>
          /\ Len(possibleWords') < Len(possibleWords)
          /\ ~includes(possibleWords', hist'.guesses[hist'.turns])]_vars
  /\ [](\A i, j \in 1..hist.turns :
          (i < j /\ hist.pooled[i] /\ hist.pooled[j]) =>
             hist.guesses[i] # hist.guesses[j])
  /\ [](\A i, j \in 1..hist.turns :
          (i < j /\ hist.pooled[j]) =>
             computeGuessStatus(hist.guesses[i], hist.guesses[j])
               = hist.results[i])

\* C22: when App.startNewGame completes, every cell of board is empty, every
\* cell of boardStatus has its default value, currAttempt is
\* {attempt: 0, letterPos: 0}, gameOver is {false, false} and botWon is false,
\* whatever was typed or submitted before.
C22_PlayerStateReset ==
  [][(pure.op = "board" /\ pure'.games = pure.games + 1) =>
       /\ \A r \in 1..MaxAttempts : \A i \in Pos : BoardCells(pure')[r][i] = ""
       /\ \A r \in 1..MaxAttempts :
            \A i \in Pos : pure'.boardStatus[r][i] = StatusDefault
       /\ pure'.currAttempt = [attempt |-> 0, letterPos |-> 0]
       /\ pure'.gameOver = [gameOver |-> FALSE, guessedWord |-> FALSE]
       /\ pure'.botWon = FALSE]_vars

====
